---- MODULE Spec2Model ----
(***************************************************************************)
(* Model of the two request pipelines of labs-referral-pilot:              *)
(*   generate_referrals   (blocking run_api/_run and streaming             *)
(*                         run_chat_completion)                            *)
(*   generate_action_plan (streaming run_chat_completion)                  *)
(* One behaviour is one request; Init chooses the endpoint it enters.      *)
(*                                                                         *)
(* Text is modelled as a sequence of lexical units (a marker is four       *)
(* units, "---" "RESOURCE_" "START"/"END" "---"), so a delta boundary may  *)
(* fall inside a marker, inside a JSON object or between frames.           *)
(***************************************************************************)
EXTENDS Integers, Sequences, FiniteSets, TLC

VARIABLES
    endpoint,        \* which endpoint this request entered
    pc,              \* position in the endpoint's code
    faults,          \* external collaborators that raised during the request
    segs,            \* what the model writes to the stream, segment by segment
    stream,          \* text the OpenAI stream has not delivered yet
    buffer,          \* run_chat_completion: buffer
    resource_count,  \* run_chat_completion: resource_count
    out,             \* events yielded to the consumer, in order
    stream_open,     \* the stream of line 246 of generate_referrals holds its connection
    visits,          \* Pipeline.run: component_visits
    feedback,        \* output_validator -> prompt_builder inputs
    prompt,          \* the prompt the prompt_builder rendered last
    replies,         \* llm.replies of every llm run, in order
    saved,           \* what save_result received
    http             \* outcome of the blocking call

vars == <<endpoint, pc, faults, segs, stream, buffer, resource_count, out,
          stream_open, visits, feedback, prompt, replies, saved, http>>

streamVars == <<segs, stream, buffer, resource_count, out, stream_open>>
pipeVars == <<visits, feedback, prompt, replies, saved, http>>

\* ------------------------------------------------------------------ bounds

MaxSegs == 2
MaxDeltas == 3

\* --------------------------------------------------------- python helpers

Min(S) == CHOOSE x \in S : \A y \in S : x <= y

\* str.find: lowest 0-based index of m in s, -1 when absent
find(s, m) ==
    LET hits == {i \in 0..(Len(s) - Len(m)) : SubSeq(s, i + 1, i + Len(m)) = m}
    IN  IF hits = {} THEN -1 ELSE Min(hits)

\* m in s
Contains(s, m) == find(s, m) # -1

\* s[i:j] for 0 <= i, 0 <= j
Slice(s, i, j) == SubSeq(s, i + 1, IF j < Len(s) THEN j ELSE Len(s))

\* s[i:]
SliceFrom(s, i) == SubSeq(s, i + 1, Len(s))

Whitespace == {"\n"}

RECURSIVE lstrip(_)
lstrip(s) ==
    IF s # <<>> /\ Head(s) \in Whitespace THEN lstrip(Tail(s)) ELSE s

RECURSIVE rstrip(_)
rstrip(s) ==
    IF s # <<>> /\ s[Len(s)] \in Whitespace
    THEN rstrip(SubSeq(s, 1, Len(s) - 1))
    ELSE s

\* str.strip
strip(s) == rstrip(lstrip(s))

\* ---------------------------------------------------- markers and records

start_marker == <<"---", "RESOURCE_", "START", "---">>
end_marker == <<"---", "RESOURCE_", "END", "---">>

\* Members of a JSON object, as one unit: "A", "B" and "M" carry every
\* required field of Resource, "Y" is an object that lacks one. The
\* description of "M" is a string that holds the text ---RESOURCE_END---.
ResourceBodies == {"A", "B", "M"}
ObjectBodies == ResourceBodies \cup {"Y"}

RECURSIVE SkipWhitespace(_)
SkipWhitespace(s) ==
    IF s = <<>> THEN <<>>
    ELSE IF Head(s) \in Whitespace THEN SkipWhitespace(Tail(s))
    ELSE <<Head(s)>> \o SkipWhitespace(Tail(s))

\* json.loads: the object, or a JSONDecodeError. Whitespace between the
\* tokens of the document is not part of the value.
json_loads(s) ==
    LET t == SkipWhitespace(s)
    IN  IF Len(t) = 3 /\ t[1] = "{" /\ t[2] \in ObjectBodies \ {"M"} /\ t[3] = "}"
        THEN [ok |-> TRUE, obj |-> t[2]]
        ELSE IF t = <<"{", "M">> \o end_marker \o <<"}">>
        THEN [ok |-> TRUE, obj |-> "M"]
        ELSE [ok |-> FALSE, obj |-> "JSONDecodeError"]

\* json.dumps of an object
json_dumps(obj) ==
    IF obj = "M" THEN <<"{", "M">> \o end_marker \o <<"}">> ELSE <<"{", obj, "}">>

\* Resource(**resource_obj) does not raise
ResourceValidates(obj) == obj \in ResourceBodies

RecordEvent(obj) == [kind |-> "record", body |-> json_dumps(obj)]
NoResourcesEvent ==
    [kind |-> "error",
     body |-> <<"No resources were generated. Please try a different query.">>]
ErrorEvent(e) == [kind |-> "error", body |-> <<e>>]
PlanErrorEvent(e) == [kind |-> "text", body |-> <<"Error: ", e>>]
DeltaEvent(d) == [kind |-> "text", body |-> <<d>>]

\* ------------------------------------------------- what the model streams

Frame(payload) == start_marker \o payload \o end_marker

\* "O" is a stray end marker whose closing --- is the opening --- of the
\* well-formed frame that follows it: ---RESOURCE_END---RESOURCE_START---{..
SegKinds == {"A", "B", "M", "J", "V", "x", "S", "E", "O"}

SegText(k) ==
    CASE k = "A" -> Frame(<<"{", "A", "}">>)
      [] k = "B" -> Frame(<<"\n", "{", "\n", "B", "}", "\n">>)
      [] k = "M" -> Frame(json_dumps("M"))
      [] k = "J" -> Frame(<<"{", "A">>)
      [] k = "V" -> Frame(<<"{", "Y", "}">>)
      [] k = "x" -> <<"x">>
      [] k = "S" -> start_marker \o <<"{", "A", "}">>
      [] k = "E" -> end_marker
      [] k = "O" -> <<"---", "RESOURCE_", "END">> \o Frame(<<"{", "A", "}">>)

RECURSIVE TextOf(_)
TextOf(ss) == IF ss = <<>> THEN <<>> ELSE SegText(Head(ss)) \o TextOf(Tail(ss))

Scripts == UNION {[1..n -> SegKinds] : n \in 0..MaxSegs}

\* the events the stream of generate_action_plan delivers: text deltas, one
\* of them with no text, an event of another type, and response.done
PlanDeltas == {"# Action Plan", "## 1."}
PlanEvents ==
    {[type |-> "response.output_text.delta", delta |-> d] : d \in PlanDeltas \cup {""}}
        \cup {[type |-> t, delta |-> ""] : t \in {"response.created", "response.done"}}
PlanScripts == UNION {[1..n -> PlanEvents] : n \in 0..MaxDeltas}

\* ------------------------------------------------------------------- Init

Endpoints ==
    {"generate_referrals/run", "generate_referrals/chat",
     "generate_action_plan/run", "generate_action_plan/chat"}

NoFeedback == [error_message |-> "", invalid_replies |-> <<>>]
NoPrompt == [query |-> "", error_message |-> "", invalid_replies |-> <<>>]
Components == {"load_supports", "prompt_builder", "llm", "output_validator", "save_result"}

Init ==
    /\ endpoint \in Endpoints
    /\ pc = CASE endpoint = "generate_referrals/run" -> "get_prompt"
               [] endpoint = "generate_action_plan/run" -> "prompt_builder"
               [] OTHER -> "setup"
    /\ faults = {}
    /\ segs \in CASE endpoint = "generate_referrals/chat" -> Scripts
                 [] endpoint = "generate_action_plan/chat" -> PlanScripts
                 [] OTHER -> {<<>>}
    /\ stream = IF endpoint = "generate_action_plan/chat" THEN segs ELSE TextOf(segs)
    /\ buffer = <<>>
    /\ resource_count = 0
    /\ out = <<>>
    /\ stream_open = FALSE
    /\ visits = [c \in Components |-> 0]
    /\ feedback = NoFeedback
    /\ prompt = NoPrompt
    /\ replies = <<>>
    /\ saved = <<>>
    /\ http = [status |-> 0, detail |-> ""]

\* --------------------------- generate_referrals: run_chat_completion

RefSetupSteps == {"load_supports", "get_phoenix_prompt", "responses.create"}

\* lines 168-255: parameters, supports, prompt, stream, empty buffer
RefSetup ==
    /\ endpoint = "generate_referrals/chat"
    /\ pc = "setup"
    /\ pc' = "events"
    /\ buffer' = <<>>
    /\ resource_count' = 0
    /\ stream_open' = TRUE
    /\ UNCHANGED <<endpoint, faults, segs, stream, out>>
    /\ UNCHANGED pipeVars

\* a step of the setup raises: the handler of line 320 yields the error
RefSetupFails ==
    /\ endpoint = "generate_referrals/chat"
    /\ pc = "setup"
    /\ \E who \in RefSetupSteps :
        /\ faults' = faults \cup {who}
        /\ out' = Append(out, ErrorEvent(who))
    /\ pc' = "closed"
    /\ UNCHANGED <<endpoint, segs, stream, buffer, resource_count, stream_open>>
    /\ UNCHANGED pipeVars

\* a slip: the delta is appended and the scan is put off
RefDelta_NoScan ==
    /\ endpoint = "generate_referrals/chat"
    /\ pc = "events"
    /\ \E k \in 1..Len(stream) :
        /\ buffer' = buffer \o SubSeq(stream, 1, k)
        /\ stream' = SubSeq(stream, k + 1, Len(stream))
    /\ UNCHANGED <<endpoint, pc, faults, segs, resource_count, out, stream_open>>
    /\ UNCHANGED pipeVars

\* a response.output_text.delta event with a non-empty delta
RefDelta ==
    /\ endpoint = "generate_referrals/chat"
    /\ pc = "events"
    /\ \E k \in 1..Len(stream) :
        /\ buffer' = buffer \o SubSeq(stream, 1, k)
        /\ stream' = SubSeq(stream, k + 1, Len(stream))
    /\ pc' = "scan"
    /\ UNCHANGED <<endpoint, faults, segs, resource_count, out, stream_open>>
    /\ UNCHANGED pipeVars

\* an event of another type, or a delta event with no text: only event_count,
\* which is written to the log alone, changes
RefOtherEvent ==
    /\ endpoint = "generate_referrals/chat"
    /\ pc = "events"
    /\ UNCHANGED vars

\* the scan of lines 267-302, one iteration of the while loop
Candidate(buf, start_idx, end_idx) ==
    LET json_start == start_idx + Len(start_marker)
    IN  strip(Slice(buf, json_start, end_idx))

ScanCandidate(buf) ==
    Candidate(buf, find(buf, start_marker), find(buf, end_marker))

\* a slip: the whole buffer is dropped after a resource is taken from it
ScanRest_ClearsBuffer(buf) == <<>>

\* a slip: only the resource is cut out, the text before it stays
ScanRest_KeepsPreamble(buf) ==
    Slice(buf, 0, find(buf, start_marker))
        \o SliceFrom(buf, find(buf, end_marker) + Len(end_marker))

ScanRest(buf) == SliceFrom(buf, find(buf, end_marker) + Len(end_marker))

ScanFound(buf) ==
    /\ Contains(buf, end_marker)
    /\ find(buf, start_marker) # -1
    /\ find(buf, end_marker) # -1

\* a slip: the parsed object is not given to Resource
CandidateValid_NoSchema(resource_json) == json_loads(resource_json).ok

CandidateValid(resource_json) ==
    /\ json_loads(resource_json).ok
    /\ ResourceValidates(json_loads(resource_json).obj)

RefScanEmit ==
    /\ endpoint = "generate_referrals/chat"
    /\ pc = "scan"
    /\ ScanFound(buffer)
    /\ \E start_idx \in {find(buffer, start_marker)} :
       \E end_idx \in {find(buffer, end_marker)} :
       \E resource_json \in {Candidate(buffer, start_idx, end_idx)} :
        /\ CandidateValid(resource_json)
        /\ out' = Append(out, RecordEvent(json_loads(resource_json).obj))
    /\ resource_count' = resource_count + 1
    /\ pc' = "yielded"
    /\ UNCHANGED <<endpoint, faults, segs, stream, buffer, stream_open>>
    /\ UNCHANGED pipeVars

\* the consumer asks for the next event: the generator goes on after the
\* yield of line 291 and line 300 removes the resource from the buffer
RefResume ==
    /\ endpoint = "generate_referrals/chat"
    /\ pc = "yielded"
    /\ buffer' = ScanRest(buffer)
    /\ pc' = "scan"
    /\ UNCHANGED <<endpoint, faults, segs, stream, resource_count, out, stream_open>>
    /\ UNCHANGED pipeVars

\* a slip: the close is taken by the handler of line 320, which yields
RefCancel_RunsHandler ==
    /\ endpoint = "generate_referrals/chat"
    /\ pc = "yielded"
    /\ out' = Append(out, ErrorEvent("GeneratorExit"))
    /\ pc' = "cancelled"
    /\ UNCHANGED <<endpoint, faults, segs, stream, buffer, resource_count, stream_open>>
    /\ UNCHANGED pipeVars

\* the consumer closes the generator instead: GeneratorExit is raised at
\* the yield of line 291; it is no Exception, so neither the handlers of
\* lines 293-297 nor the one of line 320 take it, and the generator ends.
\* Nothing in lines 243-323 closes the stream: whether its connection is let
\* go is up to the finalizer of the stream object, which may or may not do it
RefCancel ==
    /\ endpoint = "generate_referrals/chat"
    /\ pc = "yielded"
    /\ pc' = "cancelled"
    /\ \E finalized \in BOOLEAN : stream_open' = (stream_open /\ ~finalized)
    /\ UNCHANGED <<endpoint, faults, segs, stream, buffer, resource_count, out>>
    /\ UNCHANGED pipeVars

\* a slip: an invalid candidate raises out of the loop and ends the stream
RefScanDrop_Aborts ==
    /\ endpoint = "generate_referrals/chat"
    /\ pc = "scan"
    /\ ScanFound(buffer)
    /\ \E start_idx \in {find(buffer, start_marker)} :
       \E end_idx \in {find(buffer, end_marker)} :
       \E resource_json \in {Candidate(buffer, start_idx, end_idx)} :
        ~CandidateValid(resource_json)
    /\ out' = Append(out, ErrorEvent("JSONDecodeError"))
    /\ pc' = "closed"
    /\ UNCHANGED <<endpoint, faults, segs, stream, buffer, resource_count, stream_open>>
    /\ UNCHANGED pipeVars

RefScanDrop ==
    /\ endpoint = "generate_referrals/chat"
    /\ pc = "scan"
    /\ ScanFound(buffer)
    /\ \E start_idx \in {find(buffer, start_marker)} :
       \E end_idx \in {find(buffer, end_marker)} :
       \E resource_json \in {Candidate(buffer, start_idx, end_idx)} :
        ~CandidateValid(resource_json)
    /\ buffer' = ScanRest(buffer)
    /\ UNCHANGED <<endpoint, pc, faults, segs, stream, resource_count, out, stream_open>>
    /\ UNCHANGED pipeVars

\* a slip: the loop has no break and spins on an end marker with no start
RefScanExit_NoBreak ==
    /\ endpoint = "generate_referrals/chat"
    /\ pc = "scan"
    /\ ~Contains(buffer, end_marker)
    /\ pc' = "events"
    /\ UNCHANGED <<endpoint, faults>>
    /\ UNCHANGED streamVars
    /\ UNCHANGED pipeVars

\* the while condition is false, or the break of line 302
RefScanExit ==
    /\ endpoint = "generate_referrals/chat"
    /\ pc = "scan"
    /\ ~ScanFound(buffer)
    /\ pc' = "events"
    /\ UNCHANGED <<endpoint, faults>>
    /\ UNCHANGED streamVars
    /\ UNCHANGED pipeVars

\* a slip: the incomplete final resource of line 308 is parsed and yielded
RefStreamEnds_ParsesTail ==
    /\ endpoint = "generate_referrals/chat"
    /\ pc = "events"
    /\ stream = <<>>
    /\ pc' = "finish"
    /\ LET tail == strip(SliceFrom(buffer, find(buffer, start_marker) + Len(start_marker)))
           parses == /\ Contains(buffer, start_marker)
                     /\ ~Contains(buffer, end_marker)
                     /\ CandidateValid(tail)
       IN  /\ out' = IF parses THEN Append(out, RecordEvent(json_loads(tail).obj)) ELSE out
           /\ resource_count' = IF parses THEN resource_count + 1 ELSE resource_count
    /\ \E how \in {"response.done", "exhausted"} :
        stream_open' = (how = "response.done")
    /\ UNCHANGED <<endpoint, faults, segs, stream, buffer>>
    /\ UNCHANGED pipeVars

\* response.done (line 304) and the break of line 312, which leaves the
\* stream as it is, or the stream's iterator is exhausted and has closed it
RefStreamEnds ==
    /\ endpoint = "generate_referrals/chat"
    /\ pc = "events"
    /\ stream = <<>>
    /\ pc' = "finish"
    /\ \E how \in {"response.done", "exhausted"} :
        stream_open' = (how = "response.done")
    /\ UNCHANGED <<endpoint, faults, segs, stream, buffer, resource_count, out>>
    /\ UNCHANGED pipeVars

\* a slip: the exception leaves the generator and no event is yielded
RefStreamRaises_Escapes ==
    /\ endpoint = "generate_referrals/chat"
    /\ pc = "events"
    /\ faults' = faults \cup {"stream"}
    /\ stream_open' = FALSE
    /\ pc' = "closed"
    /\ UNCHANGED <<endpoint, segs, stream, buffer, resource_count, out>>
    /\ UNCHANGED pipeVars

\* a slip: after the error event the code after the loop still runs
RefStreamRaises_FallsThrough ==
    /\ endpoint = "generate_referrals/chat"
    /\ pc = "events"
    /\ faults' = faults \cup {"stream"}
    /\ out' = Append(out, ErrorEvent("stream"))
    /\ stream_open' = FALSE
    /\ pc' = "finish"
    /\ UNCHANGED <<endpoint, segs, stream, buffer, resource_count>>
    /\ UNCHANGED pipeVars

\* iterating the stream raises
RefStreamRaises ==
    /\ endpoint = "generate_referrals/chat"
    /\ pc = "events"
    /\ faults' = faults \cup {"stream"}
    /\ out' = Append(out, ErrorEvent("stream"))
    /\ stream_open' = FALSE
    /\ pc' = "closed"
    /\ UNCHANGED <<endpoint, segs, stream, buffer, resource_count>>
    /\ UNCHANGED pipeVars

\* a slip: the notification is yielded whatever resource_count is
RefFinish_Always ==
    /\ endpoint = "generate_referrals/chat"
    /\ pc = "finish"
    /\ out' = Append(out, NoResourcesEvent)
    /\ pc' = "closed"
    /\ UNCHANGED <<endpoint, faults, segs, stream, buffer, resource_count, stream_open>>
    /\ UNCHANGED pipeVars

\* lines 314-318
RefFinish ==
    /\ endpoint = "generate_referrals/chat"
    /\ pc = "finish"
    /\ out' = IF resource_count = 0 THEN Append(out, NoResourcesEvent) ELSE out
    /\ pc' = "closed"
    /\ UNCHANGED <<endpoint, faults, segs, stream, buffer, resource_count, stream_open>>
    /\ UNCHANGED pipeVars

RefChat ==
    \/ RefSetup
    \/ RefSetupFails
    \/ RefDelta
    \/ RefOtherEvent
    \/ RefScanEmit
    \/ RefResume
    \/ RefCancel
    \/ RefScanDrop
    \/ RefScanExit
    \/ RefStreamEnds
    \/ RefStreamRaises
    \/ RefFinish

\* --------------------------- generate_action_plan: run_chat_completion

PlanSetupSteps == {"get_resources", "get_phoenix_prompt", "responses.create"}
\* lines 114-254: parameters, resources, prompt, stream
PlanSetup ==
    /\ endpoint = "generate_action_plan/chat"
    /\ pc = "setup"
    /\ pc' = "events"
    /\ UNCHANGED <<endpoint, faults>>
    /\ UNCHANGED streamVars
    /\ UNCHANGED pipeVars

\* a step of the setup raises: the handler of line 269 yields the error text
PlanSetupFails ==
    /\ endpoint = "generate_action_plan/chat"
    /\ pc = "setup"
    /\ \E who \in PlanSetupSteps :
        /\ faults' = faults \cup {who}
        /\ out' = Append(out, PlanErrorEvent(who))
    /\ pc' = "closed"
    /\ UNCHANGED <<endpoint, segs, stream, buffer, resource_count, stream_open>>
    /\ UNCHANGED pipeVars

IsTextDelta(event) ==
    event.type = "response.output_text.delta" /\ event.delta # ""

\* a response.output_text.delta event with a non-empty delta is yielded as is
PlanDelta ==
    /\ endpoint = "generate_action_plan/chat"
    /\ pc = "events"
    /\ stream # <<>>
    /\ IsTextDelta(Head(stream))
    /\ out' = Append(out, DeltaEvent(Head(stream).delta))
    /\ stream' = Tail(stream)
    /\ UNCHANGED <<endpoint, pc, faults, segs, buffer, resource_count, stream_open>>
    /\ UNCHANGED pipeVars

\* a slip: response.done is taken for an event of another type
PlanOtherEvent_SkipsDone ==
    /\ endpoint = "generate_action_plan/chat"
    /\ pc = "events"
    /\ stream # <<>>
    /\ ~IsTextDelta(Head(stream))
    /\ stream' = Tail(stream)
    /\ UNCHANGED <<endpoint, pc, faults, segs, buffer, resource_count, out, stream_open>>
    /\ UNCHANGED pipeVars

\* an event of another type, or a delta event with no text
PlanOtherEvent ==
    /\ endpoint = "generate_action_plan/chat"
    /\ pc = "events"
    /\ stream # <<>>
    /\ ~IsTextDelta(Head(stream))
    /\ Head(stream).type # "response.done"
    /\ stream' = Tail(stream)
    /\ UNCHANGED <<endpoint, pc, faults, segs, buffer, resource_count, out, stream_open>>
    /\ UNCHANGED pipeVars

\* response.done and the break of line 267, which leaves the rest of the
\* stream unread, or the stream's iterator is exhausted
PlanStreamEnds ==
    /\ endpoint = "generate_action_plan/chat"
    /\ pc = "events"
    /\ \/ stream = <<>> /\ stream' = stream
       \/ stream # <<>> /\ Head(stream).type = "response.done" /\ stream' = Tail(stream)
    /\ pc' = "closed"
    /\ UNCHANGED <<endpoint, faults, segs, buffer, resource_count, out, stream_open>>
    /\ UNCHANGED pipeVars

\* iterating the stream raises
PlanStreamRaises ==
    /\ endpoint = "generate_action_plan/chat"
    /\ pc = "events"
    /\ faults' = faults \cup {"stream"}
    /\ out' = Append(out, PlanErrorEvent("stream"))
    /\ pc' = "closed"
    /\ UNCHANGED <<endpoint, segs, stream, buffer, resource_count, stream_open>>
    /\ UNCHANGED pipeVars

PlanChat ==
    \/ PlanSetup
    \/ PlanSetupFails
    \/ PlanDelta
    \/ PlanOtherEvent
    \/ PlanStreamEnds
    \/ PlanStreamRaises

\* ----------------------------------------- generate_referrals: _run

max_runs_per_component == 3

\* what the llm component may reply: a document that validates against
\* ResourceList, two that do not, and an empty reply
ReplyTexts == {"valid", "bad_json", "bad_schema", ""}

\* LlmOutputValidator(ResourceList).run on one reply
ValidateReply(text) ==
    IF text = "valid"
    THEN [valid |-> TRUE, error_message |-> ""]
    ELSE [valid |-> FALSE,
          error_message |->
              CASE text = "bad_json" -> "JSONDecodeError"
                [] text = "bad_schema" -> "ValidationError: field required"
                [] OTHER -> "JSONDecodeError: empty reply"]

Last(s) == s[Len(s)]

\* a slip: a component is refused one run early
MaxRunsReached_Early(c) == visits[c] >= max_runs_per_component - 1

\* a slip: a component is refused one run late
MaxRunsReached_Late(c) == visits[c] > max_runs_per_component + 1

\* Pipeline.run refuses to run a component it has visited more than
\* max_runs_per_component times (visits are counted after each run)
MaxRunsReached(c) == visits[c] > max_runs_per_component

Visit(c) == [visits EXCEPT ![c] = @ + 1]

\* lines 121-124
GetPrompt ==
    /\ endpoint = "generate_referrals/run"
    /\ pc = "get_prompt"
    /\ pc' = "load_supports"
    /\ UNCHANGED <<endpoint, faults>>
    /\ UNCHANGED streamVars
    /\ UNCHANGED pipeVars

\* lines 125-129
GetPromptFails ==
    /\ endpoint = "generate_referrals/run"
    /\ pc = "get_prompt"
    /\ faults' = faults \cup {"get_phoenix_prompt"}
    /\ http' = [status |-> 422, detail |-> "prompt version could not be retrieved"]
    /\ pc' = "raised"
    /\ UNCHANGED <<endpoint, visits, feedback, prompt, replies, saved>>
    /\ UNCHANGED streamVars

LoadSupports ==
    /\ endpoint = "generate_referrals/run"
    /\ pc = "load_supports"
    /\ ~MaxRunsReached("load_supports")
    /\ visits' = Visit("load_supports")
    /\ pc' = "prompt_builder"
    /\ UNCHANGED <<endpoint, faults, feedback, prompt, replies, saved, http>>
    /\ UNCHANGED streamVars

\* a slip: the first attempt's error context is kept for every retry
PromptBuilder_Stale ==
    /\ endpoint = "generate_referrals/run"
    /\ pc = "prompt_builder"
    /\ ~MaxRunsReached("prompt_builder")
    /\ prompt' = IF replies = <<>>
                 THEN [query |-> "query", error_message |-> "", invalid_replies |-> <<>>]
                 ELSE [query |-> "query",
                       error_message |-> ValidateReply(replies[1]).error_message,
                       invalid_replies |-> <<replies[1]>>]
    /\ feedback' = NoFeedback
    /\ visits' = Visit("prompt_builder")
    /\ pc' = "llm"
    /\ UNCHANGED <<endpoint, faults, replies, saved, http>>
    /\ UNCHANGED streamVars

\* prompt_builder renders template, query and response_json with the
\* error_message and invalid_replies the output_validator sent, if any
PromptBuilder ==
    /\ endpoint = "generate_referrals/run"
    /\ pc = "prompt_builder"
    /\ ~MaxRunsReached("prompt_builder")
    /\ prompt' = [query |-> "query",
                  error_message |-> feedback.error_message,
                  invalid_replies |-> feedback.invalid_replies]
    /\ feedback' = NoFeedback
    /\ visits' = Visit("prompt_builder")
    /\ pc' = "llm"
    /\ UNCHANGED <<endpoint, faults, replies, saved, http>>
    /\ UNCHANGED streamVars

Llm ==
    /\ endpoint = "generate_referrals/run"
    /\ pc = "llm"
    /\ ~MaxRunsReached("llm")
    /\ \E text \in ReplyTexts : replies' = Append(replies, text)
    /\ visits' = Visit("llm")
    /\ pc' = "output_validator"
    /\ UNCHANGED <<endpoint, faults, feedback, prompt, saved, http>>
    /\ UNCHANGED streamVars

\* a slip: every reply is passed on to save_result as well
OutputValidator_AlwaysSaves ==
    /\ endpoint = "generate_referrals/run"
    /\ pc = "output_validator"
    /\ ~MaxRunsReached("output_validator")
    /\ visits' = Visit("output_validator")
    /\ pc' = "save_result"
    /\ feedback' = feedback
    /\ UNCHANGED <<endpoint, faults, prompt, replies, saved, http>>
    /\ UNCHANGED streamVars

\* valid_replies go to save_result and logger, error_message and
\* invalid_replies back to prompt_builder
OutputValidator ==
    /\ endpoint = "generate_referrals/run"
    /\ pc = "output_validator"
    /\ ~MaxRunsReached("output_validator")
    /\ visits' = Visit("output_validator")
    /\ IF ValidateReply(Last(replies)).valid
       THEN /\ pc' = "save_result"
            /\ feedback' = feedback
       ELSE /\ pc' = "prompt_builder"
            /\ feedback' = [error_message |-> ValidateReply(Last(replies)).error_message,
                            invalid_replies |-> <<Last(replies)>>]
    /\ UNCHANGED <<endpoint, faults, prompt, replies, saved, http>>
    /\ UNCHANGED streamVars

\* save_result runs, pipeline.run returns and _run returns the response
SaveResult ==
    /\ endpoint = "generate_referrals/run"
    /\ pc = "save_result"
    /\ ~MaxRunsReached("save_result")
    /\ visits' = Visit("save_result")
    /\ saved' = Append(saved, Last(replies))
    /\ http' = [status |-> 200, detail |-> Last(replies)]
    /\ pc' = "returned"
    /\ UNCHANGED <<endpoint, faults, feedback, prompt, replies>>
    /\ UNCHANGED streamVars

\* a slip: a raising llm is handled as an invalid reply and retried
ComponentRaises_Retries ==
    /\ endpoint = "generate_referrals/run"
    /\ pc \in {"load_supports", "llm", "save_result"}
    /\ ~MaxRunsReached(pc)
    /\ faults' = faults \cup {pc}
    /\ IF pc = "llm"
       THEN /\ pc' = "prompt_builder"
            /\ feedback' = [error_message |-> "llm raised", invalid_replies |-> <<>>]
            /\ visits' = Visit("llm")
            /\ http' = http
       ELSE /\ pc' = "raised"
            /\ http' = [status |-> 500, detail |-> pc]
            /\ UNCHANGED <<feedback, visits>>
    /\ UNCHANGED <<endpoint, prompt, replies, saved>>
    /\ UNCHANGED streamVars

\* a component raises inside pipeline.run: lines 148-153
ComponentRaises ==
    /\ endpoint = "generate_referrals/run"
    /\ pc \in {"load_supports", "llm", "save_result"}
    /\ ~MaxRunsReached(pc)
    /\ faults' = faults \cup {pc}
    /\ http' = [status |-> 500, detail |-> pc]
    /\ pc' = "raised"
    /\ UNCHANGED <<endpoint, visits, feedback, prompt, replies, saved>>
    /\ UNCHANGED streamVars

\* Pipeline.run raises PipelineMaxComponentRuns: lines 151-153
MaxRunsExceeded ==
    /\ endpoint = "generate_referrals/run"
    /\ pc \in Components
    /\ MaxRunsReached(pc)
    /\ http' = [status |-> 500, detail |-> "Internal error: maximum run count reached"]
    /\ pc' = "raised"
    /\ UNCHANGED <<endpoint, faults, visits, feedback, prompt, replies, saved>>
    /\ UNCHANGED streamVars

RefRun ==
    \/ GetPrompt
    \/ GetPromptFails
    \/ LoadSupports
    \/ PromptBuilder
    \/ Llm
    \/ OutputValidator
    \/ SaveResult
    \/ ComponentRaises
    \/ MaxRunsExceeded

\* --------------------------------------- generate_action_plan: _run

\* pipeline.run of lines 82-97: prompt_builder renders resources,
\* action_plan_json and user_query
PlanRunPromptBuilder ==
    /\ endpoint = "generate_action_plan/run"
    /\ pc = "prompt_builder"
    /\ prompt' = [query |-> "user_query", error_message |-> "", invalid_replies |-> <<>>]
    /\ visits' = Visit("prompt_builder")
    /\ pc' = "llm"
    /\ UNCHANGED <<endpoint, faults, feedback, replies, saved, http>>
    /\ UNCHANGED streamVars

\* llm replies, logger logs it, and line 99 returns the reply's text
PlanRunLlm ==
    /\ endpoint = "generate_action_plan/run"
    /\ pc = "llm"
    /\ \E text \in ReplyTexts :
        /\ replies' = Append(replies, text)
        /\ http' = [status |-> 200, detail |-> text]
    /\ visits' = Visit("llm")
    /\ pc' = "returned"
    /\ UNCHANGED <<endpoint, faults, feedback, prompt, saved>>
    /\ UNCHANGED streamVars

\* llm raises: _run has no handler, the exception leaves run_api
PlanRunRaises ==
    /\ endpoint = "generate_action_plan/run"
    /\ pc = "llm"
    /\ faults' = faults \cup {"llm"}
    /\ http' = [status |-> 500, detail |-> "llm"]
    /\ pc' = "raised"
    /\ UNCHANGED <<endpoint, visits, feedback, prompt, replies, saved>>
    /\ UNCHANGED streamVars

PlanRun ==
    \/ PlanRunPromptBuilder
    \/ PlanRunLlm
    \/ PlanRunRaises

Next == RefChat \/ PlanChat \/ RefRun \/ PlanRun

Spec == Init /\ [][Next]_vars

\* the stream delivers its events and the consumer comes back for the next
\* one after each yield (or closes the generator): a step of the streaming
\* endpoint that can be taken is taken
LiveSpec == Spec /\ WF_vars(RefChat)

\* ------------------------------------------------------------------ claims

IsRecord(e) == e.kind = "record"
Records(o) == SelectSeq(o, IsRecord)

WellFormed == {"A", "B"}
Malformed == {"J", "V"}

\* one record per well-formed frame of a script, in the script's order
RECURSIVE FrameRecords(_)
FrameRecords(ss) ==
    IF ss = <<>> THEN <<>>
    ELSE (IF Head(ss) \in WellFormed THEN <<RecordEvent(Head(ss))>> ELSE <<>>)
         \o FrameRecords(Tail(ss))

AllIn(ss, kinds) == \A i \in 1..Len(ss) : ss[i] \in kinds
Front(ss) == SubSeq(ss, 1, Len(ss) - 1)

\* the stream was read to its end and nothing raised
StreamCompleted ==
    endpoint = "generate_referrals/chat" /\ pc = "closed" /\ faults = {}

\* C1: when the stream is well-formed frames back to back, then however the
\* text was cut into deltas the consumer has received exactly one record per
\* frame, in the frames' order, and nothing else.
C1_OneRecordPerFrame ==
    (StreamCompleted /\ segs # <<>> /\ AllIn(segs, WellFormed))
        => out = FrameRecords(segs)

C1_Witness ==
    /\ StreamCompleted
    /\ segs = <<"A", "B">>
    /\ out = <<RecordEvent("A"), RecordEvent("B")>>

\* C2: when the stream is frames of which at least one holds a candidate that
\* fails json.loads or Resource, every well-formed frame is still emitted, in
\* order, and the stream ends without an error event for the dropped ones.
C2_MalformedFramesDropped ==
    (/\ StreamCompleted
     /\ AllIn(segs, WellFormed \cup Malformed)
     /\ \E i \in 1..Len(segs) : segs[i] \in Malformed)
        => /\ Records(out) = FrameRecords(segs)
           /\ FrameRecords(segs) # <<>> => out = FrameRecords(segs)

C2_Witness ==
    /\ StreamCompleted
    /\ segs = <<"J", "A">>
    /\ out = <<RecordEvent("A")>>

RunEnded == endpoint = "generate_referrals/run" /\ pc \in {"returned", "raised"}
ReplyValid(i) == ValidateReply(replies[i]).valid
GeneratorInvocations == Len(replies) + (IF "llm" \in faults THEN 1 ELSE 0)

\* C3: a run in which no collaborator raised and whose replies are k invalid
\* ones followed by a valid one, k < max_runs_per_component, has succeeded
\* with exactly k + 1 llm runs; and a run is not ended for invalid replies
\* before the llm has had max_runs_per_component attempts.
C3_SucceedsAfterKRetries ==
    (RunEnded /\ faults = {}) =>
        /\ \A k \in 0..(max_runs_per_component - 1) :
            (/\ Len(replies) >= k + 1
             /\ \A i \in 1..k : ~ReplyValid(i)
             /\ ReplyValid(k + 1))
                => /\ http.status = 200
                   /\ GeneratorInvocations = k + 1
                   /\ visits["llm"] = k + 1
        /\ (\A i \in 1..Len(replies) : ~ReplyValid(i))
                => Len(replies) >= max_runs_per_component

C3_Witness ==
    /\ RunEnded
    /\ http.status = 200
    /\ replies = <<"bad_json", "", "valid">>

\* C4 as claimed: the llm never runs more than max_runs_per_component times
\* for one request.
C4_AtMostBudgetInvocations ==
    endpoint = "generate_referrals/run"
        => GeneratorInvocations <= max_runs_per_component

\* C4 as amended: the llm never runs more than max_runs_per_component + 1
\* times for one request, and a run whose every reply was invalid ends in an
\* HTTP 500 error after exactly max_runs_per_component + 1 llm runs.
C4_AtMostBudgetPlusOne ==
    endpoint = "generate_referrals/run" =>
        /\ GeneratorInvocations <= max_runs_per_component + 1
        /\ (/\ RunEnded
            /\ faults = {}
            /\ \A i \in 1..Len(replies) : ~ReplyValid(i))
                => /\ pc = "raised"
                   /\ http.status = 500
                   /\ Len(replies) = max_runs_per_component + 1
                   /\ saved = <<>>
                   /\ ~ENABLED Next

C4_Witness ==
    /\ RunEnded
    /\ pc = "raised"
    /\ http.status = 500
    /\ replies = <<"bad_json", "bad_schema", "", "bad_json">>

\* C5: when a prompt has just been rendered, it is the first and has no error
\* context, or the output_validator has finished with the reply before it,
\* found it invalid, and the prompt holds that reply and its error message.
C5_RetryPromptHasLastError ==
    (endpoint = "generate_referrals/run" /\ pc = "llm") =>
        IF visits["prompt_builder"] = 1
        THEN /\ replies = <<>>
             /\ prompt.error_message = ""
             /\ prompt.invalid_replies = <<>>
        ELSE /\ Len(replies) = visits["prompt_builder"] - 1
             /\ visits["output_validator"] = Len(replies)
             /\ ~ReplyValid(Len(replies))
             /\ prompt.error_message = ValidateReply(Last(replies)).error_message
             /\ prompt.invalid_replies = <<Last(replies)>>

C5_Witness ==
    /\ endpoint = "generate_referrals/run"
    /\ pc = "llm"
    /\ replies = <<"bad_json", "bad_schema">>
    /\ prompt.error_message = "ValidationError: field required"
    /\ prompt.invalid_replies = <<"bad_schema">>

\* C6: once the llm has raised, the request has ended with HTTP 500 and
\* nothing more runs, whatever is left of max_runs_per_component.
C6_TransportFailureIsFatal ==
    (endpoint = "generate_referrals/run" /\ "llm" \in faults) =>
        /\ pc = "raised"
        /\ http.status = 500
        /\ visits["llm"] = Len(replies)
        /\ ~ENABLED Next

C6_Witness ==
    /\ endpoint = "generate_referrals/run"
    /\ "llm" \in faults
    /\ replies = <<"bad_schema">>
    /\ http.status = 500

\* C7: a completed stream with no record ends with the one "No resources
\* were generated" event and nothing else; one with a record has no such event.
C7_NoRecordsNotification ==
    StreamCompleted =>
        /\ Records(out) = <<>> => out = <<NoResourcesEvent>>
        /\ Records(out) # <<>> => \A i \in 1..Len(out) : out[i] # NoResourcesEvent

C7_Witness ==
    /\ StreamCompleted
    /\ segs = <<"J", "V">>
    /\ out = <<NoResourcesEvent>>

ChatEndpoints == {"generate_referrals/chat", "generate_action_plan/chat"}
FaultEvent(f) ==
    IF endpoint = "generate_referrals/chat" THEN ErrorEvent(f) ELSE PlanErrorEvent(f)

\* C9: on either streaming endpoint, once something has raised the stream is
\* closed, its last event is the one error event for what raised, and no
\* event follows.
C9_FailuresBecomeOneErrorEvent ==
    (endpoint \in ChatEndpoints /\ faults # {}) =>
        /\ pc = "closed"
        /\ \E f \in faults :
            /\ faults = {f}
            /\ out # <<>>
            /\ Last(out) = FaultEvent(f)
        /\ \A i \in 1..(Len(out) - 1) :
            /\ out[i].kind # "error"
            /\ out[i].body[1] # "Error: "
        /\ ~ENABLED Next

C9_Witness ==
    /\ endpoint = "generate_action_plan/chat"
    /\ faults = {"stream"}
    /\ out = <<DeltaEvent("# Action Plan"), DeltaEvent("## 1."), PlanErrorEvent("stream")>>

C11_FrameRoundTrip ==
    (StreamCompleted /\ Len(segs) = 1 /\ segs[1] \in ResourceBodies) =>
        /\ Len(out) = 1
        /\ IsRecord(out[1])
        /\ json_loads(out[1].body) = [ok |-> TRUE, obj |-> segs[1]]

\* C12: a blocking call that has returned a result returns text that
\* validates against the endpoint's schema.
C12_ReturnedValueIsValidated ==
    (endpoint \in {"generate_referrals/run", "generate_action_plan/run"}
        /\ http.status = 200)
        => ValidateReply(http.detail).valid

\* C13: when save_result has raised on a validated reply, the caller still
\* has that reply as a successful result.
C13_SinkFailureKeepsResult ==
    (endpoint = "generate_referrals/run" /\ "save_result" \in faults) =>
        /\ http.status = 200
        /\ http.detail = Last(replies)

Exhausted ==
    /\ RunEnded
    /\ faults = {}
    /\ replies # <<>>
    /\ \A i \in 1..Len(replies) : ~ReplyValid(i)

\* C14: when every attempt was invalid and the run has ended, the error the
\* caller receives holds the error message of the last invalid reply.
C14_ExhaustedErrorHasLastDetail ==
    Exhausted => http.detail = ValidateReply(Last(replies)).error_message

SinkInvocations == Len(saved) + (IF "save_result" \in faults THEN 1 ELSE 0)

\* C15: save_result runs at most once in a request and only on a reply the
\* output_validator found valid; it has not run when the request ended with
\* the llm raising or with every attempt invalid.
C15_SinkOnlyGetsValidReplies ==
    endpoint = "generate_referrals/run" =>
        /\ SinkInvocations <= 1
        /\ \A i \in 1..Len(saved) : ValidateReply(saved[i]).valid
        /\ (pc = "save_result" \/ SinkInvocations = 1) =>
                /\ replies # <<>>
                /\ ReplyValid(Len(replies))
                /\ \A i \in 1..(Len(replies) - 1) : ~ReplyValid(i)
        /\ (Exhausted \/ "llm" \in faults) =>
                /\ SinkInvocations = 0
                /\ visits["save_result"] = 0

C15_Witness ==
    /\ endpoint = "generate_referrals/run"
    /\ pc = "returned"
    /\ replies = <<"bad_schema", "valid">>
    /\ saved = <<"valid">>

\* C16: once the consumer has closed the stream at a record it was handed,
\* nothing more happens: no event is pulled, the buffer keeps the resource it
\* was just handed and what follows it, and the consumer has the records
\* yielded so far and no other event.
C16_CancelStopsEverything ==
    (endpoint = "generate_referrals/chat" /\ pc = "cancelled") =>
        /\ ~ENABLED Next
        /\ faults = {}
        /\ out # <<>>
        /\ \A i \in 1..Len(out) : IsRecord(out[i])
        /\ Len(out) = resource_count
        /\ ScanFound(buffer)
        /\ Last(out) = RecordEvent(json_loads(ScanCandidate(buffer)).obj)

C16_Witness ==
    /\ endpoint = "generate_referrals/chat"
    /\ pc = "cancelled"
    /\ segs = <<"A", "S">>
    /\ stream # <<>>
    /\ out = <<RecordEvent("A")>>

\* C17: a stream the consumer has closed does not hold its OpenAI stream open.
C17_CancelReleasesStream ==
    (endpoint = "generate_referrals/chat" /\ pc = "cancelled") => ~stream_open

\* the text of the deltas pulled from the stream so far
Received == SubSeq(TextOf(segs), 1, Len(TextOf(segs)) - Len(stream))

\* the records the loop of lines 267-302 takes out of a text given whole
RECURSIVE ExtractAll(_)
ExtractAll(buf) ==
    IF ~ScanFound(buf) THEN <<>>
    ELSE (IF CandidateValid(ScanCandidate(buf))
          THEN <<RecordEvent(json_loads(ScanCandidate(buf)).obj)>>
          ELSE <<>>)
         \o ExtractAll(ScanRest(buf))

\* C18: whenever the extractor is about to pull the next event, or to see
\* that the stream is over, the consumer already has every record that the
\* text received so far holds: a record is not held back until a later delta.
C18_RecordsEmittedBeforeNextDelta ==
    (endpoint = "generate_referrals/chat" /\ pc = "events") =>
        out = ExtractAll(Received)

C18_Witness ==
    /\ endpoint = "generate_referrals/chat"
    /\ pc = "events"
    /\ segs = <<"A", "B">>
    /\ Received = SegText("A")
    /\ stream = SegText("B")
    /\ out = <<RecordEvent("A")>>

IsSuffix(a, b) ==
    Len(a) <= Len(b) /\ SubSeq(b, Len(b) - Len(a) + 1, Len(b)) = a

\* marker m stands at 0-based index i of buf
MarkerAt(buf, m, i) ==
    i + Len(m) <= Len(buf) /\ SubSeq(buf, i + 1, i + Len(m)) = m

HasCompleteFrame(buf) ==
    \E i \in 0..Len(buf) : \E j \in 0..Len(buf) :
        /\ MarkerAt(buf, start_marker, i)
        /\ MarkerAt(buf, end_marker, j)
        /\ j >= i + Len(start_marker)

\* what has been cut off the front of the buffer
Consumed == SubSeq(Received, 1, Len(Received) - Len(buffer))

\* C19: between delta events the buffer is a suffix of the text received so
\* far, what was cut off its front ends with the end marker of a frame (and
\* something was cut off when a record was emitted), and the buffer holds no
\* start marker followed by an end marker.
C19_BufferIsUnconsumedTail ==
    (endpoint = "generate_referrals/chat" /\ pc = "events") =>
        /\ IsSuffix(buffer, Received)
        /\ Consumed = <<>> \/ IsSuffix(end_marker, Consumed)
        /\ resource_count > 0 => Consumed # <<>>
        /\ ~HasCompleteFrame(buffer)

C19_Witness ==
    /\ endpoint = "generate_referrals/chat"
    /\ pc = "events"
    /\ segs = <<"A", "S">>
    /\ stream = <<>>
    /\ out = <<RecordEvent("A")>>
    /\ buffer = SegText("S")

\* the first end marker of buf at or after the end of its first start marker
EndAfterStart(buf) ==
    LET json_start == find(buf, start_marker) + Len(start_marker)
        at == {j \in json_start..Len(buf) : MarkerAt(buf, end_marker, j)}
    IN  IF at = {} THEN -1 ELSE CHOOSE j \in at : \A k \in at : j <= k

\* C20: in every scan step the candidate is the text between the first start
\* marker of the buffer and the first end marker after that start marker.
C20_CandidateEndsAtNextEndMarker ==
    (endpoint = "generate_referrals/chat" /\ pc = "scan" /\ ScanFound(buffer)) =>
        /\ EndAfterStart(buffer) # -1
        /\ ScanCandidate(buffer) =
            strip(Slice(buffer, find(buffer, start_marker) + Len(start_marker),
                        EndAfterStart(buffer)))

\* C21: every return to the head of the scan loop has strictly shortened the
\* buffer, an end marker with no start marker ends the loop, and a referrals
\* stream always comes to its end: it is closed, or the consumer closed it.
C21_ExtractorTerminates ==
    /\ [][(endpoint = "generate_referrals/chat"
            /\ pc \in {"scan", "yielded"} /\ pc' = "scan")
                => Len(buffer') < Len(buffer)]_vars
    /\ [][(endpoint = "generate_referrals/chat" /\ pc = "scan"
            /\ Contains(buffer, end_marker) /\ ~Contains(buffer, start_marker))
                => pc' = "events"]_vars
    /\ (endpoint = "generate_referrals/chat")
            ~> (pc \in {"closed", "cancelled"})

C21_Witness ==
    /\ endpoint = "generate_referrals/chat"
    /\ pc = "closed"
    /\ segs = <<"E", "A">>
    /\ faults = {}
    /\ buffer = <<>>
    /\ out = <<RecordEvent("A")>>

\* the events of generate_action_plan's stream pulled so far
PlanPulled == SubSeq(segs, 1, Len(segs) - Len(stream))

\* the text deltas of a sequence of events up to its first response.done
RECURSIVE PlanForwarded(_)
PlanForwarded(es) ==
    IF es = <<>> \/ Head(es).type = "response.done" THEN <<>>
    ELSE (IF Head(es).type = "response.output_text.delta" /\ Head(es).delta # ""
          THEN <<[kind |-> "text", body |-> <<Head(es).delta>>]>>
          ELSE <<>>)
         \o PlanForwarded(Tail(es))

HasDone(es) == \E i \in 1..Len(es) : es[i].type = "response.done"

\* C22: as long as nothing has raised, the consumer of the action-plan stream
\* has the texts of the non-empty text deltas pulled so far, as they came and
\* in their order, and nothing else; response.done is the last event pulled,
\* and at the end the consumer has the deltas before it and none after it.
C22_PlanDeltasForwardedUntilDone ==
    (endpoint = "generate_action_plan/chat" /\ faults = {}) =>
        /\ out = PlanForwarded(PlanPulled)
        /\ HasDone(PlanPulled) =>
            /\ pc = "closed"
            /\ ~HasDone(Front(PlanPulled))
        /\ pc = "closed" =>
            /\ out = PlanForwarded(segs)
            /\ ~HasDone(segs) => stream = <<>>
            /\ ~ENABLED Next

C22_Witness ==
    /\ endpoint = "generate_action_plan/chat"
    /\ pc = "closed"
    /\ faults = {}
    /\ segs = << [type |-> "response.output_text.delta", delta |-> "# Action Plan"],
                 [type |-> "response.done", delta |-> ""],
                 [type |-> "response.output_text.delta", delta |-> "## 1."] >>
    /\ stream = << [type |-> "response.output_text.delta", delta |-> "## 1."] >>
    /\ out = <<DeltaEvent("# Action Plan")>>

StrayEnd == {"E", "O"}

\* the records of the well-formed frames of a script with stray end markers
RECURSIVE FramesAmongStrays(_)
FramesAmongStrays(ss) ==
    IF ss = <<>> THEN <<>>
    ELSE (CASE Head(ss) \in WellFormed -> <<RecordEvent(Head(ss))>>
            [] Head(ss) = "O" -> <<RecordEvent("A")>>
            [] OTHER -> <<>>)
         \o FramesAmongStrays(Tail(ss))

\* C23: when the stream is well-formed frames with stray end markers before
\* or between them, the consumer gets one record for each well-formed frame,
\* in order, and no record for a stray end marker.
C23_StrayEndMarkerLosesNoFrame ==
    (/\ StreamCompleted
     /\ AllIn(segs, WellFormed \cup StrayEnd)
     /\ \E i \in 1..Len(segs) : segs[i] \in StrayEnd)
        => Records(out) = FramesAmongStrays(segs)

\* the same for stray end markers that share no text with a start marker
C23_SeparateStrayEndMarkerLosesNoFrame ==
    (/\ StreamCompleted
     /\ AllIn(segs, WellFormed \cup {"E"})
     /\ \E i \in 1..Len(segs) : segs[i] = "E")
        => Records(out) = FramesAmongStrays(segs)

NonRecords(o) == {i \in 1..Len(o) : ~IsRecord(o[i])}

\* C24: a referrals stream has at most one event that is not a record, and
\* it is the last event of a closed stream; after a failure the events are the
\* records yielded before it and then the one error event, which is the only
\* event when no record was yielded.
C24_OneNonRecordEventLast ==
    endpoint = "generate_referrals/chat" =>
        /\ Cardinality(NonRecords(out)) <= 1
        /\ NonRecords(out) # {} =>
            /\ NonRecords(out) = {Len(out)}
            /\ pc = "closed"
            /\ ~ENABLED Next
        /\ faults # {} =>
            /\ Len(out) = resource_count + 1
            /\ \A i \in 1..resource_count : IsRecord(out[i])
            /\ \E f \in faults : Last(out) = ErrorEvent(f)
            /\ \A i \in 1..Len(out) : out[i] # NoResourcesEvent

C24_Witness ==
    /\ endpoint = "generate_referrals/chat"
    /\ pc = "closed"
    /\ faults = {"stream"}
    /\ segs = <<"A", "S">>
    /\ out = <<RecordEvent("A"), ErrorEvent("stream")>>

====
